---- MODULE Spec2Model ----
(***************************************************************************)
(* Model of calltrace.py: the @trace decorator, the per-callable tracer    *)
(* descriptor, the wrapper's call state machine and the recursion guard    *)
(* kept in the shared set _threads_in_safe_str.                            *)
(*                                                                         *)
(* Python values are written as their literal text ("1", "None", "tc"),    *)
(* id(v) is the opaque text "#v".  A thread runs an explicit stack of      *)
(* frames; one action is one statement group of the source that touches    *)
(* at most one shared object (the guard set or the output sink).           *)
(***************************************************************************)
EXTENDS Integers, Sequences, FiniteSets, TLC

\* ---------------------------------------------------------------- bounds
MaxDecor == 2     \* applications of trace() in one behaviour
MaxCalls == 2     \* top-level calls made by the client threads together
MaxDepth == 10    \* frames a thread may nest (the interpreter's recursion limit, scaled)

Threads == {"main", "worker"}

\* ------------------------------------------------- the traced client code
NoClass == ""                 \* Python None as a class name
ClassNames == {"_TestClass", "_BaseClass", "_BadStr"}
FuncNames == {"_test_func", "f"}
MemberNames == {"__init__", "method", "my_name", "__str__", "boom", "sm", "sms", "cm", "method_one"}

\* The client's plain functions: __name__, declared parameters (getargspec),
\* and what the body does.
RawFn(r) ==
  CASE r = "_test_func"            -> [name |-> "_test_func",  args |-> <<"a", "b">>,    body |-> "ret_a_unless_b2"]
    [] r = "f"                     -> [name |-> "f",           args |-> <<"a", "self">>, body |-> "ret_a"]
    [] r = "_TestClass.__init__"   -> [name |-> "__init__",    args |-> <<"self", "a">>, body |-> "none_unless_a2"]
    [] r = "_TestClass.method"     -> [name |-> "method",      args |-> <<"self">>,      body |-> "ret_Return"]
    [] r = "_TestClass.my_name"    -> [name |-> "my_name",     args |-> <<"self">>,      body |-> "ret_MyName"]
    [] r = "_TestClass.__str__"    -> [name |-> "__str__",     args |-> <<"self">>,      body |-> "call_my_name"]
    [] r = "_TestClass.boom"       -> [name |-> "boom",        args |-> <<"self">>,      body |-> "raise"]
    [] r = "_TestClass.sm"         -> [name |-> "sm",          args |-> <<"a", "b">>,    body |-> "ret_a"]
    [] r = "_TestClass.sms"        -> [name |-> "sms",         args |-> <<"a", "self">>, body |-> "ret_a"]
    [] r = "_TestClass.cm"         -> [name |-> "cm",          args |-> <<"cls", "a">>,  body |-> "ret_a"]
    [] r = "_BaseClass.method_one" -> [name |-> "method_one",  args |-> <<"self", "a">>, body |-> "ret_a"]
    [] r = "_BadStr.__str__"       -> [name |-> "__str__",     args |-> <<"self">>,      body |-> "raise_self_exc"]
    [] OTHER                       -> [name |-> "",            args |-> <<>>,            body |-> ""]

\* A callable: a plain function with the tracers wrapped around it, innermost
\* first.  hasattr(c, 'tracer') is Len(c.tracers) > 0.
Plain(r) == [raw |-> r, tracers |-> <<>>]
NoCallable == Plain("")
Absent == [kind |-> "absent", fn |-> NoCallable]

\* The class bodies as written by the client (own members only).
ClassBody(c) ==
  [n \in MemberNames |->
     CASE c = "_TestClass" /\ n \in {"__init__", "method", "my_name", "__str__", "boom"}
             -> [kind |-> "method", fn |-> Plain("_TestClass." \o n)]
       [] c = "_TestClass" /\ n \in {"sm", "sms"}
             -> [kind |-> "static method", fn |-> Plain("_TestClass." \o n)]
       [] c = "_TestClass" /\ n = "cm" -> [kind |-> "class method",  fn |-> Plain("_TestClass.cm")]
       [] c = "_BaseClass" /\ n = "method_one" -> [kind |-> "method", fn |-> Plain("_BaseClass.method_one")]
       [] c = "_BadStr" /\ n = "__str__" -> [kind |-> "method", fn |-> Plain("_BadStr.__str__")]
       [] OTHER -> Absent]

\* Method resolution order: _TestClass derives from _BaseClass.
Mro(c) == IF c = "_TestClass" THEN <<"_TestClass", "_BaseClass">> ELSE <<c>>

\* The client's objects and the class of each.
ClassOf(v) ==
  CASE v = "tc" -> "_TestClass"
    [] v \in {"rb", "eb"} -> "_BadStr"
    [] OTHER -> NoClass

\* id(obj) as text, and the built-in str() of values without a user __str__.
Id(v) == "#" \o v
BuiltinStr(v) == IF v = "_TestClass" THEN "<class _TestClass>" ELSE v

TypeErr  == [type |-> "TypeError", msg |-> "badaboom"]
RunErr   == [type |-> "RuntimeError", msg |-> "bad str"]
UnboundErr == [type |-> "UnboundLocalError", msg |-> "thread_id"]
KeyErr   == [type |-> "KeyError", msg |-> "thread"]
UnboundMethodErr == [type |-> "TypeError", msg |-> "unbound method"]
NoExc    == [type |-> "", msg |-> ""]

VARIABLES
  funcs,      \* module-level names of the client: function name -> callable
  members,    \* class -> member name -> [kind, fn]: each class's own dict
  ndecor,     \* trace() applications so far
  inSafeStr,  \* _threads_in_safe_str
  stack,      \* thread -> sequence of active frames, innermost last
  ret,        \* thread -> value or exception travelling to the frame below
  out,        \* thread -> lines given to _output during the current top-level call
  top,        \* thread -> the current (or last) top-level call and what happened in it
  prev,       \* thread -> its previous top-level call was the traced _TestClass.__str__
  ncalls,     \* top-level calls started so far
  deco        \* the trace(cls) the main thread is inside: class and members left to replace

vars == <<funcs, members, ndecor, inSafeStr, stack, ret, out, top, prev, ncalls, deco>>

\* ------------------------------------------------------------ _FunctionTracer

\* _select_call_format: which of the four name templates.
SelectCallFormat(class_name, has_self) ==
  IF class_name # NoClass /\ has_self THEN "class[inst].func"
  ELSE IF class_name # NoClass /\ ~has_self THEN "class.func"
  ELSE IF class_name = NoClass /\ has_self THEN "[inst].func"
  ELSE "func"

\* _select_handle_self: the strategy and the displayed positional names.
SelectHandleSelf(has_self, is_init) ==
  IF has_self /\ is_init THEN "remove_self"
  ELSE IF has_self THEN "use_self"
  ELSE "no_self"

Contains(s, x) == \E i \in 1..Len(s) : s[i] = x

\* _get_details: 'self' anywhere among the declared parameters.
HasSelf(arg_names) == Contains(arg_names, "self")

\* getargspec(real_func).args: the wrapper is declared (*pargs, **kwargs).
ArgSpec(fn) == IF Len(fn.tracers) > 0 THEN <<>> ELSE RawFn(fn.raw).args

\* _FunctionTracer.__init__(func, class_name); im_class is the class of a
\* method object, NoClass for a plain function.
FunctionTracer(fn, class_name, im_class) ==
  LET name0 == RawFn(fn.raw).name
      cls0 == im_class
      args0 == ArgSpec(fn)
      is_init == name0 = "__init__"
      has_self == HasSelf(args0)
      cls == IF class_name # NoClass /\ cls0 = NoClass THEN class_name ELSE cls0
      hs == SelectHandleSelf(has_self, is_init)
  IN [name |-> name0,
      class_name |-> cls,
      arg_names |-> IF hs = "remove_self" THEN Tail(args0) ELSE args0,
      is_init |-> is_init,
      has_self |-> has_self,
      name_format |-> SelectCallFormat(cls, has_self),
      handle_self |-> hs,
      im_class |-> im_class]

\* _trace_method: wrapped_function() around func.
TraceMethod(fn, class_name, im_class) ==
  [raw |-> fn.raw, tracers |-> Append(fn.tracers, FunctionTracer(fn, class_name, im_class))]

\* Attribute lookup along the MRO: the first class that owns the name.
RECURSIVE LookupFrom(_, _, _, _)
LookupFrom(mem, mro, i, n) ==
  IF i > Len(mro) THEN Absent
  ELSE IF mem[mro[i]][n].kind # "absent" THEN mem[mro[i]][n]
  ELSE LookupFrom(mem, mro, i + 1, n)
Lookup(mem, c, n) == LookupFrom(mem, Mro(c), 1, n)

\* inspect.getmembers lists the names in sorted order.
MemberOrder ==
  <<"__init__", "__str__", "boom", "cm", "method", "method_one", "my_name", "sm", "sms">>

\* _trace_class lines 57-81: getmembers() and classify_class_attrs() both list
\* inherited members; the loop keeps every untraced member of one of the three
\* function kinds, as fetched when trace() started.
Methods(mem, c) ==
  LET keep(n) == /\ Lookup(mem, c, n).kind \in {"method", "static method", "class method"}
                 /\ Len(Lookup(mem, c, n).fn.tracers) = 0
      names == SelectSeq(MemberOrder, keep)
  IN [i \in 1..Len(names) |->
        [name |-> names[i], kind |-> Lookup(mem, c, names[i]).kind,
         fn |-> Lookup(mem, c, names[i]).fn]]

\* Line 83: what setattr stores on c for one kept member; a method object
\* carries im_class, the functions under staticmethod/classmethod do not.
Replacement(c, e) ==
  [kind |-> e.kind,
   fn |-> TraceMethod(e.fn, c, IF e.kind = "method" THEN c ELSE NoClass)]

NoDeco == [cls |-> NoClass, todo |-> <<>>]

\* trace(obj) for a class, called by the main thread: lines 57-58.
TraceClass(c) ==
  /\ ndecor < MaxDecor
  /\ stack["main"] = <<>>
  /\ deco = NoDeco
  /\ deco' = IF Methods(members, c) = <<>> THEN NoDeco
             ELSE [cls |-> c, todo |-> Methods(members, c)]
  /\ ndecor' = ndecor + 1
  /\ UNCHANGED <<funcs, members, inSafeStr, stack, ret, out, top, prev, ncalls>>

\* One turn of the loop that reaches line 83; after the last one trace() returns.
SetAttr ==
  /\ deco # NoDeco
  /\ LET e == Head(deco.todo)
     IN members' = [members EXCEPT ![deco.cls][e.name] = Replacement(deco.cls, e)]
  /\ deco' = IF Tail(deco.todo) = <<>> THEN NoDeco ELSE [deco EXCEPT !.todo = Tail(@)]
  /\ UNCHANGED <<funcs, ndecor, inSafeStr, stack, ret, out, top, prev, ncalls>>

\* trace(obj) for a function, called by the main thread; the client rebinds the
\* name to the result.
TraceFunction(f) ==
  /\ ndecor < MaxDecor
  /\ stack["main"] = <<>>
  /\ deco = NoDeco
  /\ funcs' = [funcs EXCEPT ![f] = TraceMethod(@, NoClass, NoClass)]
  /\ ndecor' = ndecor + 1
  /\ UNCHANGED <<members, inSafeStr, stack, ret, out, top, prev, ncalls, deco>>

\* ------------------------------------------------------------------ frames
NoRet == [st |-> "none", val |-> "", exc |-> NoExc]
RetVal(v) == [st |-> "val", val |-> v, exc |-> NoExc]
RetExc(e) == [st |-> "exc", val |-> "", exc |-> e]

Frame(kind, pc, fn, pargs, kwargs, obj) ==
  [kind |-> kind, pc |-> pc, fn |-> fn, pargs |-> pargs, kwargs |-> kwargs,
   looping |-> FALSE, bound |-> FALSE, instance |-> "0",
   todo |-> <<>>, shown |-> <<>>, obj |-> obj, retval |-> "", mark |-> 0]

\* Calling a callable: the wrapper's _call when it is traced, else the body.
CallFrame(fn, pargs, kwargs) ==
  IF Len(fn.tracers) > 0 THEN Frame("call", "enter", fn, pargs, kwargs, "")
  ELSE Frame("body", "start", fn, pargs, kwargs, "")

\* An unbound method of class cls wants an instance of cls as first positional
\* argument.
IsInstance(v, cls) == \E i \in 1..Len(Mro(ClassOf(v))) : Mro(ClassOf(v))[i] = cls
IsBindable(cls, pargs) == pargs # <<>> /\ IsInstance(pargs[1], cls)

\* self._func of the outermost tracer, and that tracer.
Tracer(fn) == fn.tracers[Len(fn.tracers)]
Wrapped(fn) == [raw |-> fn.raw, tracers |-> SubSeq(fn.tracers, 1, Len(fn.tracers) - 1)]

\* Line 230, self._func(*pargs, **kwargs): the frame of the wrapped callable, or
\* no frame when self._func is a method object that rejects the arguments.
FuncAccepts(fn, pargs) ==
  Tracer(fn).im_class = NoClass \/ IsBindable(Tracer(fn).im_class, pargs)
CallFunc(s, fr) ==
  IF FuncAccepts(fr.fn, fr.pargs)
  THEN Append(s, CallFrame(Wrapped(fr.fn), fr.pargs, fr.kwargs))
  ELSE s
FuncRet(r, fr) == IF FuncAccepts(fr.fn, fr.pargs) THEN r ELSE RetExc(UnboundMethodErr)

Top(t) == stack[t][Len(stack[t])]
Depth(t) == Len(stack[t])
Pop(s) == SubSeq(s, 1, Len(s) - 1)
ReplaceTop(s, fr) == [s EXCEPT ![Len(s)] = fr]

KwHas(kwargs, k) == \E p \in kwargs : p[1] = k
KwGet(kwargs, k) == (CHOOSE p \in kwargs : p[1] = k)[2]

\* All orders in which kwargs.items() can enumerate a dict.
RECURSIVE Orders(_)
Orders(S) ==
  IF S = {} THEN {<<>>}
  ELSE UNION {{<<p>> \o rest : rest \in Orders(S \ {p})} : p \in S}

\* zip(self._arg_names, pargs)
RECURSIVE Zip(_, _)
Zip(names, vals) ==
  IF names = <<>> \/ vals = <<>> THEN <<>>
  ELSE <<<<Head(names), Head(vals)>>>> \o Zip(Tail(names), Tail(vals))

\* ------------------------------------------------------ the three strategies
HandleSelfRemoveSelfKeep(pargs, kwargs) ==
  IF KwHas(kwargs, "self")
    THEN [pargs |-> pargs, kwargs |-> kwargs, instance |-> Id(KwGet(kwargs, "self"))]
  ELSE IF Len(pargs) > 0
    THEN [pargs |-> pargs, kwargs |-> kwargs, instance |-> Id(pargs[1])]
  ELSE [pargs |-> pargs, kwargs |-> kwargs, instance |-> "None"]
HandleSelfRemoveSelf(pargs, kwargs) ==
  IF KwHas(kwargs, "self")
    THEN [pargs |-> pargs, kwargs |-> {p \in kwargs : p[1] # "self"},
          instance |-> Id(KwGet(kwargs, "self"))]
  ELSE IF Len(pargs) > 0
    THEN [pargs |-> Tail(pargs), kwargs |-> kwargs, instance |-> Id(pargs[1])]
  ELSE [pargs |-> pargs, kwargs |-> kwargs, instance |-> "None"]

HandleSelfUseSelf(pargs, kwargs) ==
  IF KwHas(kwargs, "self")
    THEN [pargs |-> pargs, kwargs |-> kwargs, instance |-> Id(KwGet(kwargs, "self"))]
  ELSE IF Len(pargs) > 0
    THEN [pargs |-> pargs, kwargs |-> kwargs, instance |-> Id(pargs[1])]
  ELSE [pargs |-> pargs, kwargs |-> kwargs, instance |-> "None"]

HandleSelfNoSelf(pargs, kwargs) ==
  [pargs |-> pargs, kwargs |-> kwargs, instance |-> "None"]

HandleSelf(tr, pargs, kwargs) ==
  IF tr.handle_self = "remove_self" THEN HandleSelfRemoveSelf(pargs, kwargs)
  ELSE IF tr.handle_self = "use_self" THEN HandleSelfUseSelf(pargs, kwargs)
  ELSE HandleSelfNoSelf(pargs, kwargs)

\* ------------------------------------------------------------ the guard
CheckRecursionLoopAlways(t, guard) == TRUE
CheckRecursionLoopGlobal(t, guard) == guard # {}
CheckRecursionLoop(t, guard) == t \in guard

\* ------------------------------------------------------------ the sink
\* One line given to _output: the template chosen at decoration time filled
\* with the thread, the identity tag and the texts.
Line(kind, t, tr, instance, args, value, exc, depth) ==
  [kind |-> kind, thread |-> t, form |-> tr.name_format,
   cls |-> IF tr.name_format \in {"class[inst].func", "class.func"} THEN tr.class_name ELSE "",
   inst |-> IF tr.name_format \in {"class[inst].func", "[inst].func"} THEN instance ELSE "",
   func |-> tr.name, args |-> args, value |-> value, exc |-> exc, depth |-> depth]

\* _log_exception: the exception line, then traceback.format_exc().
ExceptionLines(t, tr, instance, exc, depth) ==
  << Line("exception", t, tr, instance, <<>>, "", NoExc, depth),
     [kind |-> "traceback", thread |-> t, form |-> "", cls |-> "", inst |-> "",
      func |-> "", args |-> <<>>, value |-> "", exc |-> exc, depth |-> depth] >>

\* str(obj): the __str__ the object's class provides, if it has one.
HasUserStr(mem, v) ==
  ClassOf(v) # NoClass /\ Lookup(mem, ClassOf(v), "__str__").kind # "absent"
UserStr(mem, v) == Lookup(mem, ClassOf(v), "__str__").fn

\* ------------------------------------------------------- the client's calls
\* A top-level call: name looked up in the module (cls = "") or on a class,
\* recv the instance a method is fetched from, "" when it is fetched from the
\* class, "__func__" when the client calls the function stored on the class.
\* top[t].fn is the callable the call entered, NoCallable when none was;
\* top[t].helper tells, for a call of __str__, whether my_name was traced when
\* the call started.
Call(cls, name, recv, pargs, kwargs) ==
  [cls |-> cls, name |-> name, recv |-> recv, pargs |-> pargs, kwargs |-> kwargs]

ArgVals == {"1", "tc", "rb", "eb"}

MainCalls ==
  {Call("", "_test_func", "", <<a>>, {<<"b", "1">>}) : a \in ArgVals}
  \cup {Call("", "_test_func", "", <<"1", "1">>, {}),
        Call("", "_test_func", "", <<"1">>, {<<"b", "2">>}),
        Call("", "f", "", <<"1", "tc">>, {}),
        Call("_TestClass", "method", "tc", <<>>, {}),
        Call("_TestClass", "method", "", <<>>, {<<"self", "tc">>}),
        Call("_TestClass", "__str__", "tc", <<>>, {}),
        Call("_TestClass", "boom", "tc", <<>>, {}),
        Call("_TestClass", "method_one", "tc", <<"1">>, {}),
        Call("_TestClass", "__init__", "tc", <<"1">>, {}),
        Call("_TestClass", "__init__", "tc", <<"2">>, {}),
        Call("_TestClass", "__init__", "__func__", <<>>, {<<"self", "tc">>, <<"a", "2">>}),
        Call("_TestClass", "sm", "", <<"1", "2">>, {}),
        Call("_TestClass", "sms", "", <<"1", "2">>, {}),
        Call("_TestClass", "sm", "", <<"1">>, {<<"b", "tc">>}),
        Call("_TestClass", "cm", "", <<"1">>, {}),
        Call("_BadStr", "__str__", "eb", <<>>, {})}

\* The worker is one thread started with its target; it ends when the call does.
WorkerCalls ==
  {Call("_TestClass", "__str__", "tc", <<>>, {})}

Menu(t) == IF t = "main" THEN MainCalls ELSE WorkerCalls

NoTop == [call |-> Call("", "", "", <<>>, {}), fn |-> NoCallable, pargs |-> <<>>,
          inner |-> NoRet, strd |-> {}, helper |-> FALSE]

\* The helper _TestClass.__str__ calls is already traced (trace() replaces the
\* members of a class one after the other).
HelperTraced(mem) == Len(Lookup(mem, "_TestClass", "my_name").fn.tracers) > 0

\* ------------------------------------------------------------------- Init
Init ==
  /\ funcs = [f \in FuncNames |-> Plain(f)]
  /\ members = [c \in ClassNames |-> ClassBody(c)]
  /\ ndecor = 0
  /\ inSafeStr = {}
  /\ stack = [t \in Threads |-> <<>>]
  /\ ret = [t \in Threads |-> NoRet]
  /\ out = [t \in Threads |-> <<>>]
  /\ top = [t \in Threads |-> NoTop]
  /\ prev = [t \in Threads |-> FALSE]
  /\ ncalls = 0
  /\ deco = NoDeco

\* ------------------------------------------------------- the client's call
\* The client evaluates  name(*pargs, **kwargs)  or  obj.name(...) / Class.name(...);
\* instance and class methods get their first argument from the binding.
\* A function fetched from its class is an unbound method and checks its first
\* positional argument; fetched from an instance it is bound, and the function
\* behind it (recv = "__func__") takes any arguments.
AcceptsCall(m, c) ==
  \/ m.kind # "method"
  \/ c.recv # ""
  \/ IsBindable(c.cls, c.pargs)

Invoke(t, c) ==
  /\ stack[t] = <<>>
  /\ ncalls < MaxCalls
  /\ t = "main" => deco = NoDeco
  /\ t = "worker" => top[t] = NoTop
  /\ LET m == IF c.cls = "" THEN [kind |-> "function", fn |-> funcs[c.name]]
              ELSE Lookup(members, c.cls, c.name)
         pa == IF m.kind = "class method" THEN <<c.cls>> \o c.pargs
               ELSE IF m.kind = "method" /\ c.recv \notin {"", "__func__"} THEN <<c.recv>> \o c.pargs
               ELSE c.pargs
     IN IF AcceptsCall(m, c)
        THEN /\ stack' = [stack EXCEPT ![t] = <<CallFrame(m.fn, pa, c.kwargs)>>]
             /\ top' = [top EXCEPT ![t] = [call |-> c, fn |-> m.fn, pargs |-> pa,
                                           inner |-> NoRet, strd |-> {},
                                           helper |-> c.name = "__str__" /\ HelperTraced(members)]]
             /\ ret' = [ret EXCEPT ![t] = NoRet]
        ELSE /\ stack' = stack
             /\ top' = [top EXCEPT ![t] = [NoTop EXCEPT !.call = c]]
             /\ ret' = [ret EXCEPT ![t] = RetExc(UnboundMethodErr)]
  /\ prev' = [prev EXCEPT ![t] = /\ Len(top[t].fn.tracers) > 0
                                  /\ top[t].call.cls = "_TestClass"
                                  /\ top[t].call.name = "__str__"]
  /\ out' = [out EXCEPT ![t] = <<>>]
  /\ ncalls' = ncalls + 1
  /\ UNCHANGED <<funcs, members, ndecor, inSafeStr, deco>>

\* ------------------------------------------------------ _FunctionTracer._call
\* Lines 223-227 (and 230 when the guard is set): the recursion check, the
\* receiver strategy, the pairs to format.
CallEnter(t) ==
  /\ stack[t] # <<>>
  /\ Top(t).kind = "call" /\ Top(t).pc = "enter"
  /\ LET fr == Top(t)
         tr == Tracer(fr.fn)
         h == HandleSelf(tr, fr.pargs, fr.kwargs)
     IN IF CheckRecursionLoop(t, inSafeStr)
        THEN /\ Depth(t) < MaxDepth
             /\ stack' = [stack EXCEPT ![t] =
                  CallFunc(ReplaceTop(@, [fr EXCEPT !.looping = TRUE, !.pc = "called",
                                                       !.mark = Len(out[t])]), fr)]
             /\ ret' = [ret EXCEPT ![t] = FuncRet(@, fr)]
        ELSE /\ \E ord \in Orders(h.kwargs) :
                  stack' = [stack EXCEPT ![t] =
                     ReplaceTop(@, [fr EXCEPT !.instance = h.instance, !.bound = TRUE,
                                              !.todo = Zip(tr.arg_names, h.pargs) \o ord,
                                              !.pc = "fmt", !.mark = Len(out[t])])]
             /\ ret' = ret
  /\ UNCHANGED <<funcs, members, ndecor, inSafeStr, out, top, prev, ncalls, deco>>

\* _format_arguments -> _safe_str(value), lines 101-104: the thread enters the
\* guard set and str(obj) starts.
FormatArgument(t) ==
  /\ stack[t] # <<>>
  /\ Top(t).kind = "call" /\ Top(t).pc = "fmt" /\ Top(t).todo # <<>>
  /\ Depth(t) + 1 < MaxDepth
  /\ LET fr == Top(t)
         v == Head(fr.todo)[2]
         safe == Frame("safe", "wait", NoCallable, <<>>, {}, v)
         below == Append(ReplaceTop(stack[t], [fr EXCEPT !.pc = "fmtwait"]), safe)
     IN /\ inSafeStr' = inSafeStr \cup {t}
        /\ IF HasUserStr(members, v)
           THEN /\ stack' = [stack EXCEPT ![t] = Append(below, CallFrame(UserStr(members, v), <<v>>, {}))]
                /\ ret' = ret
           ELSE /\ stack' = [stack EXCEPT ![t] = below]
                /\ ret' = [ret EXCEPT ![t] = RetVal(BuiltinStr(v))]
        /\ top' = IF Depth(t) = 1 THEN [top EXCEPT ![t].strd = @ \cup {v}] ELSE top
  /\ UNCHANGED <<funcs, members, ndecor, out, prev, ncalls, deco>>

\* What _safe_str hands back: str(obj), or str(id(obj)) after a RuntimeError;
\* any other exception passes through.
SafeStrResultAll(r, obj) ==
  IF r.st = "val" THEN r ELSE RetVal(Id(obj))
SafeStrResult(r, obj) ==
  IF r.st = "val" THEN r
  ELSE IF r.exc.type = "RuntimeError" THEN RetVal(Id(obj))
  ELSE r

\* The finally clause: set.remove raises KeyError when the entry is missing.
SafeStrFinallyOnReturn(t, guard, r) == IF r.st = "val" THEN guard \ {t} ELSE guard
SafeStrFinally(t, guard, r) == guard \ {t}

\* _safe_str lines 104-109 and the return into _format_arguments: the text is
\* joined to the line being built, or the exception leaves _call (line 228 is
\* outside the try).
SafeStrReturn(t) ==
  /\ stack[t] # <<>>
  /\ Top(t).kind = "safe" /\ ret[t].st # "none"
  /\ LET sf == Top(t)
         r0 == SafeStrResult(ret[t], sf.obj)
         r == IF t \in inSafeStr THEN r0 ELSE RetExc(KeyErr)
         fr == stack[t][Depth(t) - 1]
     IN /\ inSafeStr' = SafeStrFinally(t, inSafeStr, ret[t])
        /\ IF r.st = "val"
           THEN /\ stack' = [stack EXCEPT ![t] =
                     ReplaceTop(Pop(@), [fr EXCEPT !.shown = Append(@, <<Head(fr.todo)[1], r.val>>),
                                                   !.todo = Tail(@), !.pc = "fmt"])]
                /\ ret' = [ret EXCEPT ![t] = NoRet]
           ELSE /\ stack' = [stack EXCEPT ![t] = Pop(Pop(@))]
                /\ ret' = [ret EXCEPT ![t] = r]
  /\ UNCHANGED <<funcs, members, ndecor, out, top, prev, ncalls, deco>>

\* _log_call (line 228) and the call of self._func with the caller's
\* arguments (line 230).
LogCall(t) ==
  /\ stack[t] # <<>>
  /\ Top(t).kind = "call" /\ Top(t).pc = "fmt" /\ Top(t).todo = <<>>
  /\ Depth(t) < MaxDepth
  /\ LET fr == Top(t)
         tr == Tracer(fr.fn)
     IN /\ out' = [out EXCEPT ![t] =
               Append(@, Line("call", t, tr, fr.instance, fr.shown, "", NoExc, Depth(t)))]
        /\ stack' = [stack EXCEPT ![t] = CallFunc(ReplaceTop(@, [fr EXCEPT !.pc = "called"]), fr)]
        /\ ret' = [ret EXCEPT ![t] = FuncRet(@, fr)]
  /\ UNCHANGED <<funcs, members, ndecor, inSafeStr, top, prev, ncalls, deco>>

\* The except clause, lines 234-236: thread_id is a local assigned only when
\* the call was not suppressed; reading it unassigned raises UnboundLocalError
\* in place of the exception being handled.
ExceptClauseAlways(t, fr, exc, d) ==
  [lines |-> ExceptionLines(t, Tracer(fr.fn), fr.instance, exc, d), ret |-> RetExc(exc)]
ExceptClause(t, fr, exc, d) ==
  IF fr.bound
  THEN [lines |-> ExceptionLines(t, Tracer(fr.fn), fr.instance, exc, d), ret |-> RetExc(exc)]
  ELSE [lines |-> <<>>, ret |-> RetExc(UnboundErr)]

\* self._func returned (lines 230-233).  A suppressed call returns at once;
\* otherwise _log_return formats the value with str.format, outside _safe_str.
CallReturn(t) ==
  /\ stack[t] # <<>>
  /\ Top(t).kind = "call" /\ Top(t).pc = "called" /\ ret[t].st = "val"
  /\ LET fr == Top(t)
         tr == Tracer(fr.fn)
         v == ret[t].val
     IN /\ top' = IF Depth(t) = 1 THEN [top EXCEPT ![t].inner = ret[t]] ELSE top
        /\ IF fr.looping
           THEN /\ stack' = [stack EXCEPT ![t] = Pop(@)]
                /\ UNCHANGED <<ret, out, deco>>
           ELSE IF HasUserStr(members, v)
           THEN /\ Depth(t) < MaxDepth
                /\ stack' = [stack EXCEPT ![t] =
                       Append(ReplaceTop(@, [fr EXCEPT !.pc = "retfmt", !.retval = v]),
                              CallFrame(UserStr(members, v), <<v>>, {}))]
                /\ ret' = [ret EXCEPT ![t] = NoRet]
                /\ out' = out
           ELSE /\ out' = [out EXCEPT ![t] =
                       Append(@, Line("return", t, tr, fr.instance, <<>>, BuiltinStr(v), NoExc, Depth(t)))]
                /\ stack' = [stack EXCEPT ![t] = Pop(@)]
                /\ ret' = ret
  /\ UNCHANGED <<funcs, members, ndecor, inSafeStr, prev, ncalls, deco>>

\* self._func raised (lines 234-236).
CallExcept(t) ==
  /\ stack[t] # <<>>
  /\ Top(t).kind = "call" /\ Top(t).pc = "called" /\ ret[t].st = "exc"
  /\ LET fr == Top(t)
         h == ExceptClause(t, fr, ret[t].exc, Depth(t))
     IN /\ out' = [out EXCEPT ![t] = @ \o h.lines]
        /\ ret' = [ret EXCEPT ![t] = h.ret]
        /\ stack' = [stack EXCEPT ![t] = Pop(@)]
        /\ top' = IF Depth(t) = 1 THEN [top EXCEPT ![t].inner = ret[t]] ELSE top
  /\ UNCHANGED <<funcs, members, ndecor, inSafeStr, prev, ncalls, deco>>

\* _log_return once the value's own __str__ has finished (lines 259-262, then
\* 233), or the except clause when that __str__ raised inside the try.
LogReturn(t) ==
  /\ stack[t] # <<>>
  /\ Top(t).kind = "call" /\ Top(t).pc = "retfmt" /\ ret[t].st # "none"
  /\ LET fr == Top(t)
         tr == Tracer(fr.fn)
         h == ExceptClause(t, fr, ret[t].exc, Depth(t))
     IN IF ret[t].st = "val"
        THEN /\ out' = [out EXCEPT ![t] =
                    Append(@, Line("return", t, tr, fr.instance, <<>>, ret[t].val, NoExc, Depth(t)))]
             /\ ret' = [ret EXCEPT ![t] = RetVal(fr.retval)]
        ELSE /\ out' = [out EXCEPT ![t] = @ \o h.lines]
             /\ ret' = [ret EXCEPT ![t] = h.ret]
  /\ stack' = [stack EXCEPT ![t] = Pop(@)]
  /\ UNCHANGED <<funcs, members, ndecor, inSafeStr, top, prev, ncalls, deco>>

\* ------------------------------------------------------ the client's bodies
RECURSIVE IndexOf(_, _, _)
IndexOf(s, x, i) == IF i > Len(s) THEN 0 ELSE IF s[i] = x THEN i ELSE IndexOf(s, x, i + 1)

\* The value bound to a declared parameter.
Arg(fr, name) ==
  LET i == IndexOf(RawFn(fr.fn.raw).args, name, 1)
  IN IF i >= 1 /\ i <= Len(fr.pargs) THEN fr.pargs[i] ELSE KwGet(fr.kwargs, name)

BodyResult(fr) ==
  LET b == RawFn(fr.fn.raw).body IN
  CASE b = "ret_a" -> RetVal(Arg(fr, "a"))
    [] b = "ret_a_unless_b2" -> IF Arg(fr, "b") = "2" THEN RetExc(TypeErr) ELSE RetVal(Arg(fr, "a"))
    [] b = "none_unless_a2" -> IF Arg(fr, "a") = "2" THEN RetExc(TypeErr) ELSE RetVal("None")
    [] b = "ret_Return" -> RetVal("Return")
    [] b = "ret_MyName" -> RetVal("My Name")
    [] b = "raise" -> RetExc(TypeErr)
    [] b = "raise_self_exc" -> IF Arg(fr, "self") = "rb" THEN RetExc(RunErr) ELSE RetExc(TypeErr)
    [] OTHER -> RetVal("None")

\* A body that returns or raises without calling anything traced.
BodyRun(t) ==
  /\ stack[t] # <<>>
  /\ Top(t).kind = "body" /\ Top(t).pc = "start"
  /\ RawFn(Top(t).fn.raw).body # "call_my_name"
  /\ ret' = [ret EXCEPT ![t] = BodyResult(Top(t))]
  /\ stack' = [stack EXCEPT ![t] = Pop(@)]
  /\ UNCHANGED <<funcs, members, ndecor, inSafeStr, out, top, prev, ncalls, deco>>

\* _TestClass.__str__:  return self.my_name()
BodyCall(t) ==
  /\ stack[t] # <<>>
  /\ Top(t).kind = "body" /\ Top(t).pc = "start"
  /\ RawFn(Top(t).fn.raw).body = "call_my_name"
  /\ Depth(t) < MaxDepth
  /\ LET fr == Top(t)
         me == Arg(fr, "self")
     IN stack' = [stack EXCEPT ![t] =
           Append(ReplaceTop(@, [fr EXCEPT !.pc = "wait"]),
                  CallFrame(Lookup(members, ClassOf(me), "my_name").fn, <<me>>, {}))]
  /\ UNCHANGED <<funcs, members, ndecor, inSafeStr, ret, out, top, prev, ncalls, deco>>

BodyReturn(t) ==
  /\ stack[t] # <<>>
  /\ Top(t).kind = "body" /\ Top(t).pc = "wait" /\ ret[t].st # "none"
  /\ stack' = [stack EXCEPT ![t] = Pop(@)]
  /\ UNCHANGED <<funcs, members, ndecor, inSafeStr, ret, out, top, prev, ncalls, deco>>

\* ------------------------------------------------------------------- Next
Next ==
  \/ \E c \in ClassNames : TraceClass(c)
  \/ SetAttr
  \/ \E f \in FuncNames : TraceFunction(f)
  \/ \E t \in Threads : \E c \in Menu(t) : Invoke(t, c)
  \/ \E t \in Threads : CallEnter(t)
  \/ \E t \in Threads : FormatArgument(t)
  \/ \E t \in Threads : SafeStrReturn(t)
  \/ \E t \in Threads : LogCall(t)
  \/ \E t \in Threads : CallReturn(t)
  \/ \E t \in Threads : CallExcept(t)
  \/ \E t \in Threads : LogReturn(t)
  \/ \E t \in Threads : BodyRun(t)
  \/ \E t \in Threads : BodyCall(t)
  \/ \E t \in Threads : BodyReturn(t)

Spec == Init /\ [][Next]_vars

TypeOK ==
  /\ inSafeStr \subseteq Threads
  /\ ndecor \in 0..MaxDecor
  /\ ncalls \in 0..MaxCalls
  /\ \A t \in Threads : Len(stack[t]) <= MaxDepth

\* ===================================================================
\* Properties
\* ===================================================================
\* A top-level call of thread t has come back to the client.
Done(t) == stack[t] = <<>> /\ ret[t].st # "none"
TopTraced(t) == Len(top[t].fn.tracers) > 0
TopTracer(t) == Tracer(top[t].fn)
TopRaw(t) == RawFn(top[t].fn.raw)

\* The lines the outermost wrapper of the top-level call emitted itself.
AtDepth(d, line) == line.depth = d
Own(t) == SelectSeq(out[t], LAMBDA l : AtDepth(1, l))
Kinds(ls) == [i \in 1..Len(ls) |-> ls[i].kind]
Names(ps) == [i \in 1..Len(ps) |-> ps[i][1]]
Range(s) == {s[i] : i \in 1..Len(s)}

\* The arguments the client passed, by the parameter each one binds to.
RECURSIVE PassedFrom(_, _, _)
PassedFrom(names, pargs, i) ==
  IF i > Len(pargs) \/ i > Len(names) THEN {}
  ELSE {<<names[i], pargs[i]>>} \cup PassedFrom(names, pargs, i + 1)
Passed(t) == PassedFrom(TopRaw(t).args, top[t].pargs, 1) \cup top[t].call.kwargs

\* C1: a traced function called from client code (not from inside _safe_str)
\* emits exactly a call-line naming every passed argument by its declared
\* parameter and then a return-line with the result; when the wrapped
\* callable raises, it emits the call-line, the exception-line and the
\* traceback, and the caller gets the original exception.
C1_CallThenReturn ==
  \A t \in Threads :
    (Done(t) /\ TopTraced(t) /\ top[t].pargs # <<>> /\ top[t].call.kwargs # {})
      => /\ Len(Own(t)) >= 1
         /\ Own(t)[1].kind = "call"
         /\ Names(Own(t)[1].args) \in {Names(o) : o \in Orders(Passed(t))}
         /\ IF top[t].inner.st = "exc"
            THEN /\ Kinds(Own(t)) = <<"call", "exception", "traceback">>
                 /\ Own(t)[3].exc = top[t].inner.exc
                 /\ ret[t] = top[t].inner
            ELSE /\ Kinds(Own(t)) = <<"call", "return">>
                 /\ top[t].inner.st = "val"
                 /\ ret[t] = top[t].inner

\* C2: when the wrapped callable raises in a call suppressed by the recursion
\* guard, the wrapper emits the exception-line with identity 0 and the
\* traceback, and re-raises the same exception.
C2_SuppressedExceptionLogged ==
  [][\A t \in Threads :
       (/\ stack[t] # <<>>
        /\ Top(t).kind = "call" /\ Top(t).pc = "called" /\ Top(t).looping
        /\ ret[t].st = "exc"
        /\ stack'[t] = Pop(stack[t]))
       => /\ Len(out'[t]) = Len(out[t]) + 2
          /\ out'[t][Len(out[t]) + 1].kind = "exception"
          /\ out'[t][Len(out[t]) + 1].inst \in {"0", ""}
          /\ out'[t][Len(out[t]) + 2].kind = "traceback"
          /\ out'[t][Len(out[t]) + 2].exc = ret[t].exc
          /\ ret'[t] = ret[t]]_vars

\* Values whose string conversion raises.
StrRaises(v) == ClassOf(v) = "_BadStr"

\* C3: when str() of an argument or of the return value raises, the line shows
\* the value's identity tag instead, nothing propagates to the caller, the
\* wrapped callable is still called and its result returned.
C3_StrFailureRecovered ==
  \A t \in Threads :
    (/\ Done(t) /\ TopTraced(t) /\ top[t].call.cls = ""
     /\ \/ \E p \in Passed(t) : StrRaises(p[2])
        \/ top[t].inner.st = "val" /\ StrRaises(top[t].inner.val))
      => /\ top[t].inner.st # "none"
         /\ ret[t] = top[t].inner
         /\ Len(Own(t)) >= 1
         /\ \A i \in 1..Len(Own(t)[1].args) :
              LET p == Own(t)[1].args[i] IN
                \A q \in Passed(t) : (q[1] = p[1] /\ StrRaises(q[2])) => p[2] = Id(q[2])
         /\ (top[t].inner.st = "val" /\ StrRaises(top[t].inner.val))
              => (Len(Own(t)) = 2 /\ Own(t)[2].value = Id(top[t].inner.val))

\* The lines one wrapper invocation emitted: those at its own depth since it
\* was entered.
FrameLines(o, mark, d) == SelectSeq(SubSeq(o, mark + 1, Len(o)), LAMBDA l : AtDepth(d, l))
SafeFrames(t, d) == {i \in 1..d : stack[t][i].kind = "safe"}
InsideSafeStr(t, d) == SafeFrames(t, d - 1) # {}
Funcs(ls) == [i \in 1..Len(ls) |-> ls[i].func]

StrScenario(t) ==
  /\ Done(t) /\ TopTraced(t) /\ top[t].helper
  /\ top[t].call.cls = "_TestClass" /\ top[t].call.name = "__str__"
MethodAfterStr(t) ==
  /\ Done(t) /\ TopTraced(t)
  /\ top[t].call.cls = "_TestClass" /\ top[t].call.name = "method"
  /\ prev[t]

\* C4: a traced invocation that returns normally emits its call-line and its
\* return-line exactly when its thread was not inside _safe_str on entry;
\* calling the traced __str__ directly gives the four lines __str__ call,
\* my_name call, my_name return, __str__ return and nothing else, and a later
\* traced call on the same object gives exactly its own two lines.
C4_SuppressedIffInsideSafeStr ==
  /\ [](\A t \in Threads :
         /\ StrScenario(t) =>
              /\ Kinds(out[t]) = <<"call", "call", "return", "return">>
              /\ Funcs(out[t]) = <<"__str__", "my_name", "my_name", "__str__">>
              /\ \A i \in 1..4 : out[t][i].cls = "_TestClass" /\ out[t][i].inst = Id("tc")
              /\ \A i \in 1..2 : out[t][i].args = << <<"self", "My Name">> >>
              /\ \A i \in 3..4 : out[t][i].value = "My Name"
         /\ MethodAfterStr(t) =>
              /\ Kinds(out[t]) = <<"call", "return">>
              /\ Funcs(out[t]) = <<"method", "method">>
              /\ out[t][2].value = "Return")
  /\ [][\A t \in Threads :
          (/\ stack[t] # <<>>
           /\ Top(t).kind = "call"
           /\ stack'[t] = Pop(stack[t])
           /\ ret'[t].st = "val")
          => LET ls == FrameLines(out'[t], Top(t).mark, Depth(t))
             IN IF InsideSafeStr(t, Depth(t))
                THEN ls = <<>>
                ELSE /\ Kinds(ls) = <<"call", "return">>
                     /\ Funcs(ls) = <<Tracer(Top(t).fn).name, Tracer(Top(t).fn).name>>]_vars

C4_Witness == \E t \in Threads : MethodAfterStr(t) /\ Len(out[t]) = 2

\* C5: a call of thread T is suppressed only when T itself is inside
\* _safe_str, whatever other threads are doing, and no step of another thread
\* adds or removes T's entry in the guard set.
C5_GuardIsPerThread ==
  /\ [](\A t \in Threads : \A i \in 1..Len(stack[t]) :
          (stack[t][i].kind = "call" /\ stack[t][i].pc # "enter")
            => (stack[t][i].looping <=> InsideSafeStr(t, i)))
  /\ [][\A t \in Threads :
          (stack'[t] = stack[t]) => ((t \in inSafeStr') <=> (t \in inSafeStr))]_vars

C5_Witness ==
  \E t, u \in Threads :
    /\ t # u
    /\ u \in inSafeStr /\ t \notin inSafeStr
    /\ Len(stack[t]) = 1
    /\ Top(t).kind = "call" /\ Top(t).pc = "fmt" /\ Top(t).shown = <<>> /\ ~Top(t).looping

\* C6: a thread is in _threads_in_safe_str exactly while it has an active
\* _safe_str frame, it never has two such frames (the remove never misses),
\* and it is out of the set once _safe_str has exited, also by an exception.
C6_GuardMatchesFrames ==
  \A t \in Threads :
    /\ (t \in inSafeStr) <=> (SafeFrames(t, Len(stack[t])) # {})
    /\ Cardinality(SafeFrames(t, Len(stack[t]))) <= 1
    /\ ret[t].exc # KeyErr

C6_Witness ==
  \E t \in Threads :
    /\ Done(t) /\ ret[t].st = "exc" /\ ret[t].exc = TypeErr
    /\ top[t].inner.st = "none" /\ "eb" \in top[t].strd
    /\ t \notin inSafeStr

\* C7: after trace has been applied twice to the same class, function or
\* method, an invocation emits one call-line/return-line pair, not two.
C7_NoDuplicateWrapping ==
  \A t \in Threads :
    (Done(t) /\ TopTraced(t) /\ ret[t].st = "val")
      => Cardinality({i \in 1..Len(out[t]) :
                        out[t][i].kind = "call" /\ out[t][i].func = TopRaw(t).name}) = 1

\* The argument bound to the receiver parameter of the top-level call.
Receiver(t) ==
  IF KwHas(top[t].call.kwargs, "self") THEN KwGet(top[t].call.kwargs, "self")
  ELSE top[t].pargs[IndexOf(TopRaw(t).args, "self", 1)]

InitCall(t) ==
  /\ Done(t) /\ TopTraced(t)
  /\ TopTracer(t).is_init /\ TopTracer(t).has_self
  /\ Len(Own(t)) >= 1

InitHidesReceiver(t) ==
  /\ Own(t)[1].kind = "call"
  /\ "self" \notin Range(Names(Own(t)[1].args))
  /\ Names(Own(t)[1].args) = <<"a">>
  /\ Receiver(t) \notin top[t].strd

\* C8 as stated: a traced constructor never shows its receiver, never
\* converts it to text, and its exception-line carries the sentinel 0.
C8_InitExceptionUsesSentinel ==
  \A t \in Threads :
    InitCall(t) =>
      /\ InitHidesReceiver(t)
      /\ \A i \in 1..Len(Own(t)) : Own(t)[i].kind = "exception" => Own(t)[i].inst = "0"

\* C8 amended: a traced constructor never shows its receiver, never converts
\* it to text, and its exception-line carries the receiver's identity tag,
\* the one its call-line carries.
C8_InitExceptionUsesReceiverTag ==
  \A t \in Threads :
    InitCall(t) =>
      /\ InitHidesReceiver(t)
      /\ \A i \in 1..Len(Own(t)) :
           Own(t)[i].kind = "exception"
             => (Own(t)[i].inst = Id(Receiver(t)) /\ Own(t)[i].inst = Own(t)[1].inst)

C8_Witness ==
  \E t \in Threads :
    /\ InitCall(t)
    /\ KwHas(top[t].call.kwargs, "self")
    /\ Kinds(Own(t)) = <<"call", "exception", "traceback">>

\* C9: for an unsuppressed call of a traced callable with a receiver
\* parameter, the tag in the call-line is the identity of the argument bound
\* to the receiver, the return-line or exception-line carries the same tag,
\* and receiver handling is chosen only when the receiver is the first
\* declared parameter.
C9_TagIsReceiverIdentity ==
  \A t \in Threads :
    (Done(t) /\ TopTraced(t) /\ Len(top[t].fn.tracers) = 1
       /\ Contains(TopRaw(t).args, "self") /\ Len(Own(t)) >= 2)
      => /\ TopTracer(t).handle_self # "no_self" => TopRaw(t).args[1] = "self"
         /\ Own(t)[1].inst = Id(Receiver(t))
         /\ Own(t)[2].inst = Own(t)[1].inst

StaticOrClassCall(t) ==
  /\ Done(t) /\ TopTraced(t)
  /\ top[t].call.cls = "_TestClass"
  /\ ClassBody("_TestClass")[top[t].call.name].kind \in {"static method", "class method"}

\* C10: after class decoration a static method is still a static method and a
\* class method still a class method; their lines read Class.method without
\* an identity tag; the class method's call-line starts with cls=<the class>
\* and the static method's call-line lists just its declared arguments.
C10_StaticAndClassMethods ==
  /\ \A n \in MemberNames :
       ClassBody("_TestClass")[n].kind \in {"static method", "class method"}
         => Lookup(members, "_TestClass", n).kind = ClassBody("_TestClass")[n].kind
  /\ \A t \in Threads :
       StaticOrClassCall(t) =>
         /\ Kinds(out[t]) = <<"call", "return">>
         /\ \A i \in 1..2 :
              /\ out[t][i].form = "class.func" /\ out[t][i].inst = ""
              /\ out[t][i].cls = "_TestClass" /\ out[t][i].func = top[t].call.name
         /\ ret[t] = RetVal("1")
         /\ ClassBody("_TestClass")[top[t].call.name].kind = "class method" =>
              /\ top[t].pargs[1] = "_TestClass"
              /\ out[t][1].args = << <<"cls", "<class _TestClass>">>, <<"a", "1">> >>
         /\ ClassBody("_TestClass")[top[t].call.name].kind = "static method" =>
              /\ Len(out[t][1].args) = 2
              /\ Range(Names(out[t][1].args)) = Range(TopRaw(t).args)
              /\ out[t][1].args[1] = <<"a", "1">>

\* ------------------------------------------------------------------ C11
\* The frame a wrapper pushed for its wrapped callable (line 230).
Forwarded(t, i) ==
  /\ stack[t][i + 1].fn = Wrapped(stack[t][i].fn)
  /\ stack[t][i + 1].pargs = stack[t][i].pargs
  /\ stack[t][i + 1].kwargs = stack[t][i].kwargs

\* C11: every invocation of a traced wrapper invokes the wrapped callable
\* exactly once with exactly the positional and keyword arguments the caller
\* passed (the receiver included), and hands the caller exactly the value the
\* wrapped callable returned.
C11_WrapperIsTransparent ==
  \A t \in Threads :
    /\ \A i \in 1..(Len(stack[t]) - 1) :
         (stack[t][i].kind = "call" /\ stack[t][i].pc = "called") => Forwarded(t, i)
    /\ (Done(t) /\ TopTraced(t)) =>
         /\ top[t].inner.st # "none"
         /\ top[t].inner.st = "val" => ret[t] = top[t].inner

\* ------------------------------------------------------------------ C12
\* The class keeps the member dict it was written with, except that its own
\* members may have been wrapped.
OwnOnly(c) ==
  \A n \in MemberNames :
    /\ members[c][n].kind = ClassBody(c)[n].kind
    /\ members[c][n].fn.raw = ClassBody(c)[n].fn.raw

\* C12: decorating a class replaces only the callable members the class owns
\* directly: a member inherited from an untraced base stays unwrapped, no
\* attribute with its name appears on the decorated class, calling it emits no
\* trace lines, and the base class's own attributes are never modified by
\* decorating the subclass.
C12_InheritedMembersUntouched ==
  /\ \A c \in ClassNames : OwnOnly(c)
  /\ \A c \in ClassNames : \A n \in MemberNames :
       \A i \in 1..Len(members[c][n].fn.tracers) :
         members[c][n].fn.tracers[i].class_name \in {c, ""}
  /\ \A t \in Threads :
       (/\ top[t].call.cls # ""
        /\ ClassBody(top[t].call.cls)[top[t].call.name] = Absent
        /\ \A b \in ClassNames :
             ClassBody(b)[top[t].call.name] # Absent =>
               members[b][top[t].call.name] = ClassBody(b)[top[t].call.name])
       => out[t] = <<>>

\* ------------------------------------------------------------------ C13
\* Frame i of thread t is a wrapper whose wrapped callable has returned and
\* whose return-line is not written yet (line 261 is converting the value).
FormattingReturn(t, i) == stack[t][i].kind = "call" /\ stack[t][i].pc = "retfmt"

\* C13: the return value of an unsuppressed traced call is converted to text
\* under the recursion guard: between the wrapped callable's completion and
\* the emission of its return-line the thread is inside the safe-stringify
\* helper and every line written is that wrapper's own.
C13_ReturnValueFormattedSafely ==
  [][\A t \in Threads : \A i \in 1..Len(stack[t]) :
       FormattingReturn(t, i) =>
         /\ t \in inSafeStr
         /\ \A k \in (Len(out[t]) + 1)..Len(out'[t]) : out'[t][k].depth = i]_vars

====
